---- MODULE Spec2Model ----
(***************************************************************************)
(* A model of ta_functions.py: the security_portfolio ledger, the          *)
(* indicator transforms generate_ma_columns / generate_bollinger_columns,  *)
(* the RSI aggregate _rsi_agg and the trading loop of run_simulation_df.   *)
(*                                                                         *)
(* Numbers.  Cash, share amounts and prices are Python integers.  Values   *)
(* of DataFrame columns are exact reals of the form (a + b*sqrt(r))/den,   *)
(* or NaN; rolling means are rationals (b = 0) and Bollinger bands carry   *)
(* the square root of the rolling variance.  Floating-point rounding is    *)
(* not modelled.                                                           *)
(***************************************************************************)
EXTENDS Integers, Sequences, FiniteSets, TLC

VARIABLES total_cash_amt, security_dict, trans_df, last_call,
          security_df, indicators, result,
          start_cash_amt, securities_iter, bought_securities,
          purchase_price, pc, row_pos, sec_pos, exception,
          security_array, rsi

portfolio == <<total_cash_amt, security_dict, trans_df>>
\* security_df: the frame passed to an indicator transform; indicators: its
\* parameters, keyed as in run_simulation_df; result: what the transform
\* produced
frames == <<security_df, indicators, result>>
\* run_simulation_df: securities_iter is the order in which the loop visits the
\* set of security names; row_pos / sec_pos the position of the two nested
\* loops; pc the step the run is at; exception what ended it, if raised
simulation == <<securities_iter, bought_securities, purchase_price,
                pc, row_pos, sec_pos, exception>>
\* _rsi_agg: the window it is given and what it returned
rsi_state == <<security_array, rsi>>
vars == <<total_cash_amt, security_dict, trans_df, last_call,
          security_df, indicators, result,
          start_cash_amt, securities_iter, bought_securities,
          purchase_price, pc, row_pos, sec_pos, exception,
          security_array, rsi>>

(* ---------------------------- bounds ----------------------------------- *)
MaxStartCash == 3
MaxPrice == 2
MaxAmount == 2
MaxTrans == 2
MaxCash == 4
MaxShares == 2

MaxLen == 10
MaxShortLen == 5
MaxClose == 3
MaxWindow == 4
MaxStdHalves == 4
MaxBollingerLen == 4
MaxBollingerRows == 4
MaxRsiLen == 4
MaxRsiClose == 3
MaxSimLen == 4
MaxSimCash == 3

\* the ticker symbol the calls on the portfolio use
Securities == {"a"}
Closes == 1 .. MaxClose
\* the two price levels of the long frames
TwoCloses == {1, 2}
Windows == {1, 2, MaxWindow}
StartCash == 0 .. MaxStartCash
\* prices are positive; the methods do not check the sign of an amount
Prices == 1 .. MaxPrice
Amounts == -1 .. MaxAmount
Dates == {1}

(* ------------------------- integer helpers ----------------------------- *)
Abs(x) == IF x < 0 THEN -x ELSE x

\* int(np.floor(a/b)) for a divisor b > 0: the floor of the quotient, also
\* for a negative a
FloorDiv(a, b) == a \div b

(* ----------------------- values of a DataFrame ------------------------- *)
\* A numeric cell is NaN or the exact real (a + b*sqrt(r))/den, den > 0,
\* r >= 0; a string cell carries str.
NaN == [nan |-> TRUE, a |-> 0, b |-> 0, r |-> 0, den |-> 1]
Rat(a, den) == [nan |-> FALSE, a |-> a, b |-> 0, r |-> 0, den |-> den]
Num(i) == Rat(i, 1)
Str(s) == [nan |-> FALSE, str |-> s]

\* x + y, x - y, x * y with NaN propagating; at most one operand of a sum or
\* a product carries a square root
Add(x, y) ==
    IF x.nan \/ y.nan THEN NaN
    ELSE [nan |-> FALSE,
          a |-> x.a * y.den + y.a * x.den,
          b |-> x.b * y.den + y.b * x.den,
          r |-> IF x.b # 0 THEN x.r ELSE y.r,
          den |-> x.den * y.den]

Neg(x) == IF x.nan THEN NaN ELSE [x EXCEPT !.a = -x.a, !.b = -x.b]

Sub(x, y) == Add(x, Neg(y))

Mul(x, y) ==
    IF x.nan \/ y.nan THEN NaN
    ELSE [nan |-> FALSE,
          a |-> x.a * y.a,
          b |-> x.a * y.b + x.b * y.a,
          r |-> IF x.b # 0 THEN x.r ELSE y.r,
          den |-> x.den * y.den]

\* the square root of a rational p/q >= 0 is sqrt(p*q)/q
Sqrt(x) ==
    IF x.nan THEN NaN
    ELSE [nan |-> FALSE, a |-> 0, b |-> 1, r |-> x.a * x.den, den |-> x.den]

\* the sign of (a + b*sqrt(r))/den is the sign of a*|a| + b*|b|*r
SignOf(x) ==
    LET v == x.a * Abs(x.a) + x.b * Abs(x.b) * x.r
    IN  IF v > 0 THEN 1 ELSE IF v < 0 THEN -1 ELSE 0

\* np.sign
Sign(x) == IF x.nan THEN NaN ELSE Num(SignOf(x))

\* comparisons of cells: every comparison with NaN is False
Lt(x, y) == ~x.nan /\ ~y.nan /\ SignOf(Sub(x, y)) < 0
Gt(x, y) == ~x.nan /\ ~y.nan /\ SignOf(Sub(x, y)) > 0
Eq(x, y) == ~x.nan /\ ~y.nan /\ SignOf(Sub(x, y)) = 0

(* ----------------------------- DataFrame ------------------------------- *)
\* A DataFrame is a sequence of rows [index, data]: index is the date label
\* of the row and data maps column names to cells.  A column name is the
\* tuple of the pieces its format string joins with '_'.
Row(index, data) == [index |-> index, data |-> data]

\* col_name + '_' + security
InputCol(col_name, security) == <<col_name, security>>
\* '{}_{}d_ma_{}'.format(col_name, n, security)
MaCol(col_name, n, security) == <<col_name, ToString(n), "d_ma", security>>
\* 'ma_diff_' + security
MaDiffCol(security) == <<"ma_diff", security>>
\* 'crossover_{}'.format(security)
CrossoverCol(security) == <<"crossover", security>>
\* 'crossover_signal_{}'.format(security)
CrossoverSignalCol(security) == <<"crossover_signal", security>>
\* '{}_bollinger_high_{}'.format(col_name, security)
BollingerHighCol(col_name, security) == <<col_name, "bollinger_high", security>>
\* '{}_bollinger_low_{}'.format(col_name, security)
BollingerLowCol(col_name, security) == <<col_name, "bollinger_low", security>>
\* 'bollinger_signal_{}'.format(security)
BollingerSignalCol(security) == <<"bollinger_signal", security>>

\* DataFrame.dropna(): the rows without a NaN cell, in their order
DropNa(df) ==
    SelectSeq(df, LAMBDA row : \A c \in DOMAIN row.data : ~row.data[c].nan)

\* the sum of column c over rows lo .. hi
RECURSIVE SumCol(_, _, _, _)
SumCol(df, c, lo, hi) ==
    IF lo > hi THEN Num(0)
    ELSE Add(SumCol(df, c, lo, hi - 1), df[hi].data[c])

\* the sum of the squares of column c over rows lo .. hi
RECURSIVE SumSqCol(_, _, _, _)
SumSqCol(df, c, lo, hi) ==
    IF lo > hi THEN Num(0)
    ELSE Add(SumSqCol(df, c, lo, hi - 1),
             Mul(df[hi].data[c], df[hi].data[c]))

\* df[c].rolling(n).mean() at row d: NaN until n observations are there
RollingMean(df, c, n, d) ==
    IF d < n THEN NaN
    ELSE Mul(SumCol(df, c, d - n + 1, d), Rat(1, n))

\* the sample variance (ddof = 1) of the window; NaN for a window of one
RollingVar(df, c, n, d) ==
    IF d < n \/ n < 2 THEN NaN
    ELSE LET S == SumCol(df, c, d - n + 1, d)
             Q == SumSqCol(df, c, d - n + 1, d)
         IN  Mul(Sub(Mul(Num(n), Q), Mul(S, S)), Rat(1, n * (n - 1)))

\* df[c].rolling(n).std() at row d
RollingStd(df, c, n, d) == Sqrt(RollingVar(df, c, n, d))

(* ------------------------ generate_ma_columns -------------------------- *)
\* what a function returning a DataFrame produced: the exception raised
\* ("none" when it returned) and the frame returned
FrameOutcome(raised, df) == [raised |-> raised, df |-> df]

\* a variant with the operands exchanged: long_ma - short_ma
MaDiffReversed(df, security, col_name, ndays, d) ==
    Sub(RollingMean(df, InputCol(col_name, security), ndays[2], d),
        RollingMean(df, InputCol(col_name, security), ndays[1], d))

\* short_ma - long_ma of a security at row d
MaDiff(df, security, col_name, ndays, d) ==
    Sub(RollingMean(df, InputCol(col_name, security), ndays[1], d),
        RollingMean(df, InputCol(col_name, security), ndays[2], d))

\* [0] + (ma_diff[:-1] * ma_diff[1:]) at row d
CrossoverProduct(df, security, col_name, ndays, d) ==
    IF d = 1 THEN Num(0)
    ELSE Mul(MaDiff(df, security, col_name, ndays, d - 1),
             MaDiff(df, security, col_name, ndays, d))

\* .map({1:0, 0:0, -1:1}); a value that is not a key (NaN) maps to NaN
CrossoverMap(x) ==
    IF x.nan THEN NaN
    ELSE IF SignOf(x) < 0 THEN Num(1) ELSE Num(0)

\* the crossover column at row d
Crossover(df, security, col_name, ndays, d) ==
    CrossoverMap(Sign(CrossoverProduct(df, security, col_name, ndays, d)))

\* (variant) the signals of the days without a crossover are not removed
CrossoverSignalKept(df, security, col_name, ndays, d) ==
    IF Gt(RollingMean(df, InputCol(col_name, security), ndays[1], d),
          RollingMean(df, InputCol(col_name, security), ndays[2], d))
    THEN Str("Buy")
    ELSE Str("Sell")

\* the crossover_signal column at row d: Buy / Sell from short_ma > long_ma,
\* then N/A where the crossover column equals 0
CrossoverSignal(df, security, col_name, ndays, d) ==
    IF Eq(Crossover(df, security, col_name, ndays, d), Num(0))
    THEN Str("N/A")
    ELSE IF Gt(RollingMean(df, InputCol(col_name, security), ndays[1], d),
               RollingMean(df, InputCol(col_name, security), ndays[2], d))
         THEN Str("Buy")
         ELSE Str("Sell")

\* the columns generate_ma_columns adds for the securities
MaColumns(securities, col_name, ndays) ==
    UNION {{MaCol(col_name, ndays[1], sec), MaCol(col_name, ndays[2], sec),
            MaDiffCol(sec), CrossoverCol(sec), CrossoverSignalCol(sec)}
           : sec \in securities}

\* the cell of added column c at row d
MaCell(df, col_name, ndays, d, c) ==
    LET sec == c[Len(c)]
    IN  CASE c = MaDiffCol(sec) -> MaDiff(df, sec, col_name, ndays, d)
          [] c = CrossoverCol(sec) -> Crossover(df, sec, col_name, ndays, d)
          [] c = CrossoverSignalCol(sec) ->
                 CrossoverSignal(df, sec, col_name, ndays, d)
          [] c = MaCol(col_name, ndays[1], sec) ->
                 RollingMean(df, InputCol(col_name, sec), ndays[1], d)
          [] OTHER ->
                 RollingMean(df, InputCol(col_name, sec), ndays[2], d)

\* the frame with the added columns, before dropna
MaFrame(df, securities, col_name, ndays) ==
    LET added == MaColumns(securities, col_name, ndays)
    IN  [d \in 1 .. Len(df) |->
            Row(df[d].index,
                [c \in (DOMAIN df[d].data) \cup added
                   |-> IF c \in added
                       THEN MaCell(df, col_name, ndays, d, c)
                       ELSE df[d].data[c]])]

\* Assigning the crossover column to a frame without rows: the column is the
\* one-element list [0], and a frame whose index is empty takes the index of
\* a list-like value it is assigned, so the frame gets one row (label 0)
\* whose other cells are NaN.
SetItemIndex(df, securities, col_name) ==
    IF Len(df) = 0 /\ securities # {}
    THEN <<Row(0, [c \in {InputCol(col_name, sec) : sec \in securities}
                     |-> NaN])>>
    ELSE df

\* a variant that rejects the one-element column on a frame without rows
generate_ma_columns_strict(df, securities, col_name, ndays) ==
    IF Len(ndays) # 2 THEN FrameOutcome("Exception", <<>>)
    ELSE IF securities # {} /\ Len(df) = 0
         THEN FrameOutcome("ValueError", <<>>)
         ELSE FrameOutcome("none",
                           DropNa(MaFrame(df, securities, col_name, ndays)))

\* generate_ma_columns: ndays must have length 2; the rows with a NaN cell
\* are dropped from the returned frame
generate_ma_columns(df, securities, col_name, ndays) ==
    IF Len(ndays) # 2 THEN FrameOutcome("Exception", <<>>)
    ELSE FrameOutcome("none",
                      DropNa(MaFrame(SetItemIndex(df, securities, col_name),
                                     securities, col_name, ndays)))

(* --------------------- generate_bollinger_columns ---------------------- *)
\* rolling_mean + bollinger_std * rolling_std at row d
BollingerHigh(df, security, col_name, bollinger_std, bollinger_len, d) ==
    Add(RollingMean(df, InputCol(col_name, security), bollinger_len, d),
        Mul(bollinger_std,
            RollingStd(df, InputCol(col_name, security), bollinger_len, d)))

\* rolling_mean - bollinger_std * rolling_std at row d
BollingerLow(df, security, col_name, bollinger_std, bollinger_len, d) ==
    Sub(RollingMean(df, InputCol(col_name, security), bollinger_len, d),
        Mul(bollinger_std,
            RollingStd(df, InputCol(col_name, security), bollinger_len, d)))

\* (variant) the comparisons with the bands are not strict
BollingerSignalNonStrict(value, low, high) ==
    LET buy == Lt(value, low) \/ Eq(value, low)
        sell == Gt(value, high) \/ Eq(value, high)
    IN  IF buy THEN Str("Buy") ELSE IF sell THEN Str("Sell") ELSE Str("N/A")

\* 'Buy' if buy else 'Sell' if sell else 'N/A', with buy = value < low and
\* sell = value > high
BollingerSignal(value, low, high) ==
    LET buy == Lt(value, low)
        sell == Gt(value, high)
    IN  IF buy THEN Str("Buy") ELSE IF sell THEN Str("Sell") ELSE Str("N/A")

\* the columns generate_bollinger_columns adds for the securities
BollingerColumns(securities, col_name) ==
    UNION {{BollingerHighCol(col_name, sec), BollingerLowCol(col_name, sec),
            BollingerSignalCol(sec)} : sec \in securities}

\* the cell of added column c at row d
BollingerCell(df, col_name, bollinger_std, bollinger_len, d, c) ==
    LET sec == c[Len(c)]
        high == BollingerHigh(df, sec, col_name, bollinger_std,
                              bollinger_len, d)
        low == BollingerLow(df, sec, col_name, bollinger_std,
                            bollinger_len, d)
    IN  CASE c = BollingerHighCol(col_name, sec) -> high
          [] c = BollingerLowCol(col_name, sec) -> low
          [] OTHER ->
                 BollingerSignal(df[d].data[InputCol(col_name, sec)], low, high)

\* the frame with the added columns, before dropna
BollingerFrame(df, securities, col_name, bollinger_std, bollinger_len) ==
    LET added == BollingerColumns(securities, col_name)
    IN  [d \in 1 .. Len(df) |->
            Row(df[d].index,
                [c \in (DOMAIN df[d].data) \cup added
                   |-> IF c \in added
                       THEN BollingerCell(df, col_name, bollinger_std,
                                          bollinger_len, d, c)
                       ELSE df[d].data[c]])]

generate_bollinger_columns(df, securities, col_name, bollinger_std, bollinger_len) ==
    FrameOutcome("none",
                 DropNa(BollingerFrame(df, securities, col_name,
                                       bollinger_std, bollinger_len)))

(* ------------------------- security_portfolio -------------------------- *)
\* the portfolio as a value: self.total_cash_amt, self.security_dict,
\* self.trans_df
Port(cash, dict, trans) == [cash |-> cash, dict |-> dict, trans |-> trans]

\* security_portfolio.__init__
NewPortfolio(start_cash) == Port(start_cash, <<>>, <<>>)

\* a row of trans_df
TransRow(d, t, ty, price, amt, cash) ==
    [date |-> d, security |-> t, trans_type |-> ty,
     security_price |-> price, amt |-> amt, total_cash_amt |-> cash]

\* (variant) the row is written at the label of the last row
LocSetLast(df, label, row) ==
    IF label \in DOMAIN df
    THEN [df EXCEPT ![label] = row]
    ELSE Append(df, row)

\* self.trans_df.loc[label] = added_row, the labels of the frame being
\* 0 .. shape[0]-1: an existing label is overwritten, the next one appended
LocSet(df, label, row) ==
    IF label + 1 \in DOMAIN df
    THEN [df EXCEPT ![label + 1] = row]
    ELSE Append(df, row)

\* self.security_dict[ticker_symbol] = n
DictSet(dict, t, n) ==
    [k \in (DOMAIN dict) \cup {t} |-> IF k = t THEN n ELSE dict[k]]

\* the outcome of a method: the exception raised ("none" when it returned)
\* and the portfolio afterwards
Outcome(raised, p) == [raised |-> raised, port |-> p]

buy_securities(p, ticker_symbol, amount, security_price, trans_date) ==
    IF amount * security_price <= p.cash
    THEN LET dict == IF ticker_symbol \in DOMAIN p.dict
                     THEN DictSet(p.dict, ticker_symbol,
                                  p.dict[ticker_symbol] + amount)
                     ELSE DictSet(p.dict, ticker_symbol, amount)
             cash == p.cash - amount * security_price
             added_row == TransRow(trans_date, ticker_symbol, "Buy",
                                   security_price, security_price * amount,
                                   cash)
         IN  Outcome("none",
                     Port(cash, dict, LocSet(p.trans, Len(p.trans), added_row)))
    ELSE Outcome("InsufficientFunds", p)

\* (variant) the quotient is rounded up instead of down
buy_max_securities_ceil(p, ticker_symbol, security_price, trans_date) ==
    LET amount == -FloorDiv(-p.cash, security_price)
    IN  buy_securities(p, ticker_symbol, amount, security_price, trans_date)

buy_max_securities(p, ticker_symbol, security_price, trans_date) ==
    LET amount == FloorDiv(p.cash, security_price)
    IN  buy_securities(p, ticker_symbol, amount, security_price, trans_date)

\* (variant) the holding is decreased before the amount is checked
sell_securities_early(p, ticker_symbol, amount, security_price, trans_date) ==
    IF ticker_symbol \in DOMAIN p.dict
    THEN LET num_of_security == p.dict[ticker_symbol]
             dict == DictSet(p.dict, ticker_symbol,
                             p.dict[ticker_symbol] - amount)
         IN  IF amount > num_of_security
             THEN Outcome("OverSell", Port(p.cash, dict, p.trans))
             ELSE LET cash == p.cash + amount * security_price
                      added_row == TransRow(trans_date, ticker_symbol, "Sell",
                                            security_price,
                                            security_price * amount, cash)
                  IN  Outcome("none",
                              Port(cash, dict,
                                   LocSet(p.trans, Len(p.trans), added_row)))
    ELSE Outcome("NotOwned", p)

sell_securities(p, ticker_symbol, amount, security_price, trans_date) ==
    IF ticker_symbol \in DOMAIN p.dict
    THEN LET num_of_security == p.dict[ticker_symbol]
         IN  IF amount > num_of_security
             THEN Outcome("OverSell", p)
             ELSE LET dict == DictSet(p.dict, ticker_symbol,
                                      p.dict[ticker_symbol] - amount)
                      cash == p.cash + amount * security_price
                      added_row == TransRow(trans_date, ticker_symbol, "Sell",
                                            security_price,
                                            security_price * amount, cash)
                  IN  Outcome("none",
                              Port(cash, dict,
                                   LocSet(p.trans, Len(p.trans), added_row)))
    ELSE Outcome("NotOwned", p)

\* a variant that asks for one share more than the count held
sell_all_securities_one_more(p, ticker_symbol, security_price, trans_date) ==
    IF ticker_symbol \in DOMAIN p.dict
    THEN LET amount == p.dict[ticker_symbol] + 1
         IN  sell_securities(p, ticker_symbol, amount, security_price,
                             trans_date)
    ELSE Outcome("NotOwned", p)

sell_all_securities(p, ticker_symbol, security_price, trans_date) ==
    IF ticker_symbol \in DOMAIN p.dict
    THEN LET amount == p.dict[ticker_symbol]
         IN  sell_securities(p, ticker_symbol, amount, security_price,
                             trans_date)
    ELSE Outcome("NotOwned", p)

\* no transform has run yet
NotCalled == FrameOutcome("pending", <<>>)

\* _rsi_agg has returned value, or has raised
RsiOutcome(exc, value) == [raised |-> exc, value |-> value]

\* no simulation is running
NoSimulation ==
    /\ securities_iter = <<>>
    /\ bought_securities = {}
    /\ purchase_price = 0
    /\ pc = "idle"
    /\ row_pos = 0
    /\ sec_pos = 0
    /\ exception = "none"

\* _rsi_agg has not been called
NoRsi ==
    /\ security_array = <<>>
    /\ rsi = RsiOutcome("pending", NaN)

(* --------------------- calls on the portfolio -------------------------- *)
self == Port(total_cash_amt, security_dict, trans_df)

NoCall == [op |-> "none", ticker_symbol |-> "", amount |-> 0,
           security_price |-> 0, trans_date |-> 0, raised |-> "none"]

Call(op, t, amount, price, d, raised) ==
    [op |-> op, ticker_symbol |-> t, amount |-> amount,
     security_price |-> price, trans_date |-> d, raised |-> raised]

\* the model keeps the ledger finite: a call is explored only while its
\* result stays within MaxCash, MaxShares and MaxTrans
InBounds(p) ==
    /\ Abs(p.cash) <= MaxCash
    /\ \A t \in DOMAIN p.dict : Abs(p.dict[t]) <= MaxShares
    /\ Len(p.trans) <= MaxTrans

Apply(op, t, amount, price, d, out) ==
    /\ InBounds(out.port)
    /\ total_cash_amt' = out.port.cash
    /\ security_dict' = out.port.dict
    /\ trans_df' = out.port.trans
    /\ last_call' = Call(op, t, amount, price, d, out.raised)
    /\ UNCHANGED <<frames, start_cash_amt, simulation, rsi_state>>

BuySecurities ==
    \E t \in Securities, amount \in Amounts, price \in Prices, d \in Dates :
        Apply("buy_securities", t, amount, price, d,
              buy_securities(self, t, amount, price, d))

BuyMaxSecurities ==
    \E t \in Securities, price \in Prices, d \in Dates :
        Apply("buy_max_securities", t, 0, price, d,
              buy_max_securities(self, t, price, d))

SellSecurities ==
    \E t \in Securities, amount \in Amounts, price \in Prices, d \in Dates :
        Apply("sell_securities", t, amount, price, d,
              sell_securities(self, t, amount, price, d))

SellAllSecurities ==
    \E t \in Securities, price \in Prices, d \in Dates :
        Apply("sell_all_securities", t, 0, price, d,
              sell_all_securities(self, t, price, d))

Init ==
    /\ \E c \in StartCash :
          /\ start_cash_amt = c
          /\ total_cash_amt = NewPortfolio(c).cash
          /\ security_dict = NewPortfolio(c).dict
          /\ trans_df = NewPortfolio(c).trans
    /\ last_call = NoCall
    /\ security_df = <<>>
    /\ indicators = <<>>
    /\ result = NotCalled
    /\ NoSimulation
    /\ NoRsi

Next ==
    \/ BuySecurities
    \/ BuyMaxSecurities
    \/ SellSecurities
    \/ SellAllSecurities

Spec == Init /\ [][Next]_vars

(* ------------------- the indicator transforms, alone ------------------- *)
\* the securities argument of the transforms: the one security of the frame
FrameSecurities == {"a"}

\* the frames with one close column per security and the dates 1 .. n
CloseFrames(securities, n, closes) ==
    {[d \in 1 .. n |->
         Row(d, [c \in {InputCol("close", sec) : sec \in securities}
                   |-> Num(f[<<d, c[2]>>])])]
     : f \in [(1 .. n) \X securities -> closes]}

InitFrames(params) ==
    /\ total_cash_amt = NewPortfolio(0).cash
    /\ security_dict = NewPortfolio(0).dict
    /\ trans_df = NewPortfolio(0).trans
    /\ last_call = NoCall
    /\ \/ \E n \in 0 .. MaxLen :
             security_df \in CloseFrames(FrameSecurities, n, TwoCloses)
       \/ \E n \in 0 .. MaxShortLen :
             security_df \in CloseFrames(FrameSecurities, n, Closes)
    /\ indicators \in params
    /\ result = NotCalled
    /\ start_cash_amt = 0
    /\ NoSimulation
    /\ NoRsi

InitMA ==
    InitFrames({[ma_crossovers |-> <<s, l>>] : s \in Windows, l \in Windows})

GenerateMaColumns ==
    /\ result = NotCalled
    /\ result' = generate_ma_columns(security_df, FrameSecurities, "close",
                                     indicators.ma_crossovers)
    /\ UNCHANGED <<portfolio, last_call, security_df, indicators,
                   start_cash_amt, simulation, rsi_state>>

NextMA == GenerateMaColumns

SpecMA == InitMA /\ [][NextMA]_vars

\* bollinger_std is a multiple of 1/2, not negative; bollinger_len a window
BollingerStds == {Rat(h, 2) : h \in 0 .. MaxStdHalves}
BollingerLens == 1 .. MaxBollingerLen

InitBollinger ==
    /\ total_cash_amt = NewPortfolio(0).cash
    /\ security_dict = NewPortfolio(0).dict
    /\ trans_df = NewPortfolio(0).trans
    /\ last_call = NoCall
    /\ \E n \in 0 .. MaxBollingerRows :
          security_df \in CloseFrames(FrameSecurities, n, Closes)
    /\ indicators \in {[bollinger_std |-> k, bollinger_len |-> n]
                         : k \in BollingerStds, n \in BollingerLens}
    /\ result = NotCalled
    /\ start_cash_amt = 0
    /\ NoSimulation
    /\ NoRsi

GenerateBollingerColumns ==
    /\ result = NotCalled
    /\ result' = generate_bollinger_columns(security_df, FrameSecurities,
                                            "close", indicators.bollinger_std,
                                            indicators.bollinger_len)
    /\ UNCHANGED <<portfolio, last_call, security_df, indicators,
                   start_cash_amt, simulation, rsi_state>>

NextBollinger == GenerateBollingerColumns

SpecBollinger == InitBollinger /\ [][NextBollinger]_vars

(* ------------------------------ _rsi_agg ------------------------------- *)
\* np.diff
Diff(window) == [i \in 1 .. Len(window) - 1 |-> window[i + 1] - window[i]]

IsPos(x) == x > 0
IsNeg(x) == x < 0

RECURSIVE SumSeq(_)
SumSeq(xs) == IF xs = <<>> THEN 0 ELSE Head(xs) + SumSeq(Tail(xs))

\* array.mean() of a non-empty integer array
Mean(xs) == Rat(SumSeq(xs), Len(xs))

\* x / y for rationals x, y with y > 0
Div(x, y) == Rat(x.a * y.den, x.den * y.a)

\* _rsi_agg: the flat branch assigns rs, so that rsi is unbound at the return
rsi_agg(window) ==
    LET sec_diff == Diff(window)
        pos_array == SelectSeq(sec_diff, IsPos)
        neg_array == SelectSeq(sec_diff, IsNeg)
        pos_mean == Mean(pos_array)
        neg_mean == Neg(Mean(neg_array))
    IN  IF Len(neg_array) = 0 /\ Len(pos_array) = 0
        THEN RsiOutcome("UnboundLocalError", NaN)
        ELSE IF Len(neg_array) = 0 /\ Len(pos_array) > 0
        THEN RsiOutcome("none", Num(100))
        ELSE IF Len(pos_array) = 0 /\ Len(neg_array) > 0
        THEN RsiOutcome("none", Num(0))
        ELSE RsiOutcome("none",
                        Sub(Num(100),
                            Div(Num(100),
                                Add(Num(1), Div(pos_mean, neg_mean)))))

\* the windows of closes handed to _rsi_agg
RsiWindows ==
    UNION {[1 .. n -> 1 .. MaxRsiClose] : n \in 1 .. MaxRsiLen}

InitRSI ==
    /\ total_cash_amt = NewPortfolio(0).cash
    /\ security_dict = NewPortfolio(0).dict
    /\ trans_df = NewPortfolio(0).trans
    /\ last_call = NoCall
    /\ security_df = <<>>
    /\ indicators = <<>>
    /\ result = NotCalled
    /\ start_cash_amt = 0
    /\ NoSimulation
    /\ security_array \in RsiWindows
    /\ rsi = RsiOutcome("pending", NaN)

RsiAgg ==
    /\ rsi.raised = "pending"
    /\ rsi' = rsi_agg(security_array)
    /\ UNCHANGED <<portfolio, last_call, frames, start_cash_amt, simulation,
                   security_array>>

NextRSI == RsiAgg

SpecRSI == InitRSI /\ [][NextRSI]_vars

(* -------------------------- run_simulation_df -------------------------- *)
\* the columns the simulation loop reads from a row
SimCloseCol(security) == <<"close", security>>
SimBollingerHighCol(security) == <<"close", security, "bollinger_high">>
SimBollingerLowCol(security) == <<"close", security, "bollinger_low">>

\* row[name] raises KeyError for a column the row does not have
HasCol(row, c) == c \in DOMAIN row.data

\* a close read from a row, as the integer it is
CloseOf(row, security) == row.data[SimCloseCol(security)].a

\* what a step of the loop leaves behind: the portfolio, the held set, the
\* purchase price, the call it made on the portfolio and the exception it
\* raised
SimOutcome(exc, p, bought, price, call) ==
    [raised |-> exc, port |-> p, bought |-> bought, price |-> price,
     call |-> call]

\* a step that does nothing
SimSkip(p, bought, price) == SimOutcome("none", p, bought, price, NoCall)

\* a variant of _get_ma_crossovers_price that sells without comparing the
\* close with purchase_price
get_ma_crossovers_price_ungated(p, bought, price, index, row, security) ==
    IF ~HasCol(row, MaDiffCol(security)) \/ ~HasCol(row, SimCloseCol(security))
    THEN SimOutcome("KeyError", p, bought, price, NoCall)
    ELSE
    LET close == CloseOf(row, security)
        ma_diff == row.data[MaDiffCol(security)]
    IN  IF security \notin bought /\ Gt(ma_diff, Num(0)) /\ p.cash > price
        THEN LET out == buy_max_securities(p, security, close, index)
             IN  SimOutcome(out.raised, out.port, bought \cup {security}, close,
                            Call("buy_max_securities", security, 0, close,
                                 index, out.raised))
        ELSE IF security \in bought /\ Lt(ma_diff, Num(0))
        THEN LET out == sell_all_securities(p, security, close, index)
             IN  SimOutcome(out.raised, out.port, bought \ {security}, price,
                            Call("sell_all_securities", security, 0, close,
                                 index, out.raised))
        ELSE SimSkip(p, bought, price)

\* a variant of _get_ma_crossovers_price that buys without comparing the cash
\* with purchase_price
get_ma_crossovers_price_any_cash(p, bought, price, index, row, security) ==
    IF ~HasCol(row, MaDiffCol(security)) \/ ~HasCol(row, SimCloseCol(security))
    THEN SimOutcome("KeyError", p, bought, price, NoCall)
    ELSE
    LET close == CloseOf(row, security)
        ma_diff == row.data[MaDiffCol(security)]
    IN  IF security \notin bought /\ Gt(ma_diff, Num(0))
        THEN LET out == buy_max_securities(p, security, close, index)
             IN  SimOutcome(out.raised, out.port, bought \cup {security}, close,
                            Call("buy_max_securities", security, 0, close,
                                 index, out.raised))
        ELSE IF security \in bought /\ Lt(ma_diff, Num(0)) /\ close > price
        THEN LET out == sell_all_securities(p, security, close, index)
             IN  SimOutcome(out.raised, out.port, bought \ {security}, price,
                            Call("sell_all_securities", security, 0, close,
                                 index, out.raised))
        ELSE SimSkip(p, bought, price)

\* _get_ma_crossovers_price
get_ma_crossovers_price(p, bought, price, index, row, security) ==
    IF ~HasCol(row, MaDiffCol(security)) \/ ~HasCol(row, SimCloseCol(security))
    THEN SimOutcome("KeyError", p, bought, price, NoCall)
    ELSE
    LET close == CloseOf(row, security)
        ma_diff == row.data[MaDiffCol(security)]
    IN  IF security \notin bought /\ Gt(ma_diff, Num(0)) /\ p.cash > price
        THEN LET out == buy_max_securities(p, security, close, index)
             IN  IF out.raised # "none"
                 THEN SimOutcome(out.raised, out.port, bought, price,
                                 Call("buy_max_securities", security, 0, close,
                                      index, out.raised))
                 ELSE SimOutcome("none", out.port, bought \cup {security},
                                 close,
                                 Call("buy_max_securities", security, 0, close,
                                      index, "none"))
        ELSE IF security \in bought /\ Lt(ma_diff, Num(0)) /\ close > price
        THEN LET out == sell_all_securities(p, security, close, index)
             IN  IF out.raised # "none"
                 THEN SimOutcome(out.raised, out.port, bought, price,
                                 Call("sell_all_securities", security, 0,
                                      close, index, out.raised))
                 ELSE SimOutcome("none", out.port, bought \ {security}, price,
                                 Call("sell_all_securities", security, 0,
                                      close, index, "none"))
        ELSE SimSkip(p, bought, price)

\* _get_bollinger_price: the band columns are looked up under the names
\* close_<security>_bollinger_low / _high, the first of them by the branch
\* for a security that is not held, the second by the branch for a held one
get_bollinger_price(p, bought, price, index, row, security) ==
    IF ~HasCol(row, SimCloseCol(security))
    THEN SimOutcome("KeyError", p, bought, price, NoCall)
    ELSE IF security \notin bought /\ ~HasCol(row, SimBollingerLowCol(security))
    THEN SimOutcome("KeyError", p, bought, price, NoCall)
    ELSE IF security \in bought /\ ~HasCol(row, SimBollingerHighCol(security))
    THEN SimOutcome("KeyError", p, bought, price, NoCall)
    ELSE
    LET close == CloseOf(row, security)
    IN  IF /\ security \notin bought
           /\ Lt(Num(close), row.data[SimBollingerLowCol(security)])
           /\ p.cash > price
        THEN LET out == buy_max_securities(p, security, close, index)
             IN  IF out.raised # "none"
                 THEN SimOutcome(out.raised, out.port, bought, price,
                                 Call("buy_max_securities", security, 0, close,
                                      index, out.raised))
                 ELSE SimOutcome("none", out.port, bought \cup {security},
                                 close,
                                 Call("buy_max_securities", security, 0, close,
                                      index, "none"))
        ELSE IF /\ security \in bought
                /\ Gt(Num(close), row.data[SimBollingerHighCol(security)])
        THEN LET out == sell_all_securities(p, security, close, index)
             IN  IF out.raised # "none"
                 THEN SimOutcome(out.raised, out.port, bought, price,
                                 Call("sell_all_securities", security, 0,
                                      close, index, out.raised))
                 ELSE SimOutcome("none", out.port, bought \ {security}, price,
                                 Call("sell_all_securities", security, 0,
                                      close, index, "none"))
        ELSE SimSkip(p, bought, price)

\* the indicators that are configured
MaConfigured == "ma_crossovers" \in DOMAIN indicators
BollingerConfigured ==
    "bollinger_len" \in DOMAIN indicators /\ "bollinger_std" \in DOMAIN indicators

\* the set of security names, from the order the loop visits it in
SecurityNames == {securities_iter[i] : i \in DOMAIN securities_iter}

\* security_data after the indicator columns are generated
Annotated(df) ==
    LET ma == IF MaConfigured
              THEN generate_ma_columns(df, SecurityNames, "close",
                                       indicators.ma_crossovers)
              ELSE FrameOutcome("none", df)
    IN  IF ma.raised = "none" /\ BollingerConfigured
        THEN generate_bollinger_columns(ma.df, SecurityNames, "close",
                                        indicators.bollinger_std,
                                        indicators.bollinger_len)
        ELSE ma

\* the loop is at row row_pos of security_data and at security sec_pos
security_data == result.df
CurrentRow == security_data[row_pos]
CurrentSecurity == securities_iter[sec_pos]

\* a variant that leaves the held set as it was
StoreHeldUnchanged(out, next_pc) ==
    /\ total_cash_amt' = out.port.cash
    /\ security_dict' = out.port.dict
    /\ trans_df' = out.port.trans
    /\ bought_securities' = bought_securities
    /\ purchase_price' = out.price
    /\ last_call' = out.call
    /\ exception' = out.raised
    /\ pc' = IF out.raised = "none" THEN next_pc ELSE "raised"

\* a step stores its outcome; an exception ends the run
Store(out, next_pc) ==
    /\ total_cash_amt' = out.port.cash
    /\ security_dict' = out.port.dict
    /\ trans_df' = out.port.trans
    /\ bought_securities' = out.bought
    /\ purchase_price' = out.price
    /\ last_call' = out.call
    /\ exception' = out.raised
    /\ pc' = IF out.raised = "none" THEN next_pc ELSE "raised"

\* run_simulation_df up to the loop: the indicator columns, the portfolio,
\* the empty held set, purchase_price = 0
RunSimulationDf ==
    /\ pc = "start"
    /\ result' = Annotated(security_df)
    /\ LET out == IF result'.raised = "none"
                  THEN SimOutcome("none", NewPortfolio(start_cash_amt), {}, 0,
                                  NoCall)
                  ELSE SimOutcome(result'.raised, self, bought_securities,
                                  purchase_price, NoCall)
       IN  Store(out, IF Len(result'.df) = 0 \/ Len(securities_iter) = 0
                      THEN "done" ELSE "ma")
    /\ row_pos' = 1
    /\ sec_pos' = 1
    /\ UNCHANGED <<security_df, indicators, start_cash_amt, securities_iter,
                   rsi_state>>

\* a variant of the moving-average step that does not look at the crossover
\* flag of the row
MaStepUnflagged ==
    /\ pc = "ma"
    /\ LET out ==
             IF ~MaConfigured
             THEN SimSkip(self, bought_securities, purchase_price)
             ELSE get_ma_crossovers_price(self, bought_securities,
                                          purchase_price, CurrentRow.index,
                                          CurrentRow, CurrentSecurity)
       IN  Store(out, "bollinger")
    /\ UNCHANGED <<frames, start_cash_amt, securities_iter, row_pos, sec_pos,
                   rsi_state>>

\* the moving-average step of the loop body for the current row and security
MaStep ==
    /\ pc = "ma"
    /\ LET out ==
             IF ~MaConfigured
             THEN SimSkip(self, bought_securities, purchase_price)
             ELSE IF ~HasCol(CurrentRow, CrossoverCol(CurrentSecurity))
             THEN SimOutcome("KeyError", self, bought_securities,
                             purchase_price, NoCall)
             ELSE IF Eq(CurrentRow.data[CrossoverCol(CurrentSecurity)], Num(1))
             THEN get_ma_crossovers_price(self, bought_securities,
                                          purchase_price, CurrentRow.index,
                                          CurrentRow, CurrentSecurity)
             ELSE SimSkip(self, bought_securities, purchase_price)
       IN  Store(out, "bollinger")
    /\ UNCHANGED <<frames, start_cash_amt, securities_iter, row_pos, sec_pos,
                   rsi_state>>

\* the Bollinger step of the loop body, then on to the next security, the
\* next row, or the end of the loop
BollingerStep ==
    /\ pc = "bollinger"
    /\ LET out ==
             IF BollingerConfigured
             THEN get_bollinger_price(self, bought_securities, purchase_price,
                                      CurrentRow.index, CurrentRow,
                                      CurrentSecurity)
             ELSE SimSkip(self, bought_securities, purchase_price)
           last_sec == sec_pos = Len(securities_iter)
           last_row == row_pos = Len(security_data)
       IN  /\ Store(out, IF last_sec /\ last_row THEN "done" ELSE "ma")
           /\ IF out.raised # "none"
              THEN UNCHANGED <<row_pos, sec_pos>>
              ELSE /\ sec_pos' = IF last_sec THEN 1 ELSE sec_pos + 1
                   /\ row_pos' = IF last_sec /\ ~last_row
                                 THEN row_pos + 1 ELSE row_pos
    /\ UNCHANGED <<frames, start_cash_amt, securities_iter, rsi_state>>

(* the runs explored: one or two securities, short frames of small closes,
   and two longer series *)
\* the frame of the close series of every security: series maps a security
\* to its closes on the dates 1 .. n
SeriesFrame(series, n) ==
    [d \in 1 .. n |->
        Row(d, [c \in {InputCol("close", sec) : sec \in DOMAIN series}
                  |-> Num(series[c[2]][d])])]

\* one security, closes 10 10 12 8 9 11
EndToEndFrame == SeriesFrame([a |-> <<10, 10, 12, 8, 9, 11>>], 6)

\* two securities: b has an upward crossover at a close of 1 while a is held
\* from a purchase at 2
TwoSecurityFrame ==
    SeriesFrame([a |-> <<2, 3, 2, 1, 2, 1, 3>>, b |-> <<2, 1, 2, 1, 1, 1, 1>>],
                7)

SimNdays == {<<1, 2>>, <<2, 1>>}
SimCash == {0, 1, MaxSimCash}
SimIndicators ==
    {[ma_crossovers |-> n] : n \in SimNdays}
    \cup {[ma_crossovers |-> <<1, 2>>, bollinger_std |-> Num(1),
           bollinger_len |-> 2],
          [bollinger_std |-> Num(1), bollinger_len |-> 2]}

InitSimulation ==
    /\ total_cash_amt = NewPortfolio(0).cash
    /\ security_dict = NewPortfolio(0).dict
    /\ trans_df = NewPortfolio(0).trans
    /\ last_call = NoCall
    /\ result = NotCalled
    /\ \/ /\ \/ \E n \in 0 .. MaxSimLen :
                   security_df \in CloseFrames({"a"}, n, Closes)
             \/ security_df \in CloseFrames({"a"}, MaxSimLen + 1, TwoCloses)
          /\ securities_iter = <<"a">>
          /\ indicators \in SimIndicators
          /\ start_cash_amt \in SimCash
       \/ /\ \E n \in 0 .. MaxSimLen - 1 :
                security_df \in CloseFrames({"a", "b"}, n, TwoCloses)
          /\ securities_iter \in {<<"a", "b">>, <<"b", "a">>}
          /\ indicators \in SimIndicators
          /\ start_cash_amt \in SimCash
       \/ /\ security_df = EndToEndFrame
          /\ securities_iter = <<"a">>
          /\ indicators \in {[ma_crossovers |-> <<2, 3>>],
                             [ma_crossovers |-> <<3, 2>>]}
          /\ start_cash_amt = 100
       \/ /\ security_df = TwoSecurityFrame
          /\ securities_iter \in {<<"a", "b">>, <<"b", "a">>}
          /\ indicators = [ma_crossovers |-> <<2, 1>>]
          /\ start_cash_amt \in SimCash
    /\ bought_securities = {}
    /\ purchase_price = 0
    /\ pc = "start"
    /\ row_pos = 0
    /\ sec_pos = 0
    /\ exception = "none"
    /\ NoRsi

NextSimulation ==
    \/ RunSimulationDf
    \/ MaStep
    \/ BollingerStep

SpecSimulation == InitSimulation /\ [][NextSimulation]_vars

(* ===================== claims on the portfolio ========================= *)
\* the share count held before / after a step, 0 for a ticker not in the dict
Held(dict, t) == IF t \in DOMAIN dict THEN dict[t] ELSE 0

\* C1 (as stated): the cash balance, and the cash balance recorded in every
\* transaction of the log, is never negative.
C1_CashNonNegative ==
    /\ total_cash_amt >= 0
    /\ \A i \in DOMAIN trans_df : trans_df[i].total_cash_amt >= 0

\* C2 (as stated): the share count stored in security_dict for every
\* security is never negative.
C2_SharesNonNegative ==
    \A t \in DOMAIN security_dict : security_dict[t] >= 0

\* C3: buy_max_securities at a price P > 0 with cash C buys the largest
\* whole number n of shares with n*P <= C, i.e. floor(C/P); the cash left is
\* C - n*P, which is less than P.
C3_BuyMaxSizing ==
    [][(last_call'.op = "buy_max_securities" /\ last_call'.security_price > 0)
       => LET P == last_call'.security_price
              t == last_call'.ticker_symbol
              C == total_cash_amt
              n == Held(security_dict', t) - Held(security_dict, t)
          IN  /\ last_call'.raised = "none"
              /\ n * P <= C
              /\ (n + 1) * P > C
              /\ total_cash_amt' = C - n * P
              /\ total_cash_amt' < P
              /\ Len(trans_df') = Len(trans_df) + 1
              /\ trans_df'[Len(trans_df')].amt = n * P]_vars

C3_Witness ==
    /\ last_call.op = "buy_max_securities"
    /\ last_call.security_price = 2
    /\ last_call.raised = "none"
    /\ Len(trans_df) = 1
    /\ trans_df[1].amt = 2
    /\ total_cash_amt = 1

\* C4 (as stated): buy_max_securities at a price above the available cash
\* is rejected for insufficient funds, appends no transaction and leaves
\* the holdings unchanged.
C4_BuyMaxRejected ==
    [][(last_call'.op = "buy_max_securities"
        /\ last_call'.security_price > total_cash_amt)
       => /\ last_call'.raised = "InsufficientFunds"
          /\ trans_df' = trans_df
          /\ security_dict' = security_dict]_vars

\* C5: buy_securities raises when amount * price exceeds the cash;
\* sell_securities raises when the amount exceeds the held count or the
\* ticker is not in the dict, sell_all_securities when the ticker is not in
\* the dict; a call that raises leaves cash, holdings and log as they were.
C5_RejectedCalls ==
    [][LET c == last_call'
       IN  /\ (c.op = "buy_securities"
               /\ c.amount * c.security_price > total_cash_amt)
              => c.raised = "InsufficientFunds"
           /\ (c.op = "sell_securities"
               /\ c.ticker_symbol \in DOMAIN security_dict
               /\ c.amount > security_dict[c.ticker_symbol])
              => c.raised = "OverSell"
           /\ (c.op \in {"sell_securities", "sell_all_securities"}
               /\ c.ticker_symbol \notin DOMAIN security_dict)
              => c.raised = "NotOwned"
           /\ c.raised # "none" => UNCHANGED portfolio]_vars

C5_Witness ==
    /\ last_call.op = "sell_securities"
    /\ last_call.raised = "OverSell"
    /\ Len(trans_df) = 1
    /\ last_call.ticker_symbol \in DOMAIN security_dict
    /\ security_dict[last_call.ticker_symbol] = 1
    /\ last_call.amount = 2

\* C6: a call that returns appends exactly one transaction at the end of
\* the log, recording the cash balance after the trade and amt = price *
\* quantity; the earlier transactions stay as they were, and a call that
\* raises appends nothing.
C6_AppendOnly ==
    [][LET c == last_call'
           n == Len(trans_df)
           t == c.ticker_symbol
           buy == c.op \in {"buy_securities", "buy_max_securities"}
           q == IF buy
                THEN Held(security_dict', t) - Held(security_dict, t)
                ELSE Held(security_dict, t) - Held(security_dict', t)
       IN  IF c.raised = "none"
           THEN /\ Len(trans_df') = n + 1
                /\ SubSeq(trans_df', 1, n) = trans_df
                /\ trans_df'[n + 1].total_cash_amt = total_cash_amt'
                /\ trans_df'[n + 1].amt = c.security_price * q
                /\ trans_df'[n + 1].security = t
                /\ trans_df'[n + 1].security_price = c.security_price
                /\ trans_df'[n + 1].trans_type = (IF buy THEN "Buy" ELSE "Sell")
           ELSE trans_df' = trans_df]_vars

C6_Witness ==
    /\ Len(trans_df) = 2
    /\ trans_df[1].trans_type = "Buy"
    /\ trans_df[1].amt = 2
    /\ trans_df[2].trans_type = "Sell"
    /\ trans_df[2].amt = 2
    /\ trans_df[2].total_cash_amt = total_cash_amt
    /\ last_call.op = "sell_all_securities"

(* ===================== claims on generate_ma_columns =================== *)
\* The claims read the close prices of security "a" as integers and compute
\* the sign of short_ma - long_ma from window sums: the sign of
\* long * (sum of the short window) - short * (sum of the long window).
CloseAt(d) == security_df[d].data[InputCol("close", "a")].a

RECURSIVE CloseSum(_, _)
CloseSum(d, n) == IF n = 0 THEN 0 ELSE CloseAt(d) + CloseSum(d - 1, n - 1)

ShortLen == indicators.ma_crossovers[1]
LongLen == indicators.ma_crossovers[2]
History == IF ShortLen > LongLen THEN ShortLen ELSE LongLen

DiffSignAt(d) ==
    LET v == LongLen * CloseSum(d, ShortLen) - ShortLen * CloseSum(d, LongLen)
    IN  IF v > 0 THEN 1 ELSE IF v < 0 THEN -1 ELSE 0

MaReturned == "ma_crossovers" \in DOMAIN indicators /\ result.raised = "none"
Flagged(row) == Eq(row.data[CrossoverCol("a")], Num(1))
SignalOf(row) == row.data[CrossoverSignalCol("a")].str

\* C7 (as stated): in the returned frame the first input row has flag 0, and
\* a later day d is flagged exactly when sign(diff[d]) differs from
\* sign(diff[d-1]), the signs being -1, 0, +1.
C7_FlagIffSignDiffers ==
    MaReturned =>
        \A i \in DOMAIN result.df :
            LET d == result.df[i].index
            IN  IF d = 1
                THEN ~Flagged(result.df[i])
                ELSE Flagged(result.df[i])
                        <=> (DiffSignAt(d) # DiffSignAt(d - 1))

\* C8: a returned day has signal Buy or Sell exactly when it is flagged, Buy
\* when short MA > long MA on that day and Sell otherwise, and N/A on every
\* day that is not flagged; when the signs of the diff series are
\* [+,+,+,-,-,+,+] the flagged days are the 4th and the 6th of the series.
C8_SignalOnlyOnCrossover ==
    MaReturned =>
        /\ \A i \in DOMAIN result.df :
              LET row == result.df[i]
              IN  IF Flagged(row)
                  THEN SignalOf(row) =
                          (IF DiffSignAt(row.index) > 0 THEN "Buy" ELSE "Sell")
                  ELSE SignalOf(row) = "N/A"
        /\ (/\ Len(security_df) = History + 6
            /\ [k \in 1 .. 7 |-> DiffSignAt(History + k - 1)]
                  = <<1, 1, 1, -1, -1, 1, 1>>)
           => {result.df[i].index : i \in {j \in DOMAIN result.df :
                                              Flagged(result.df[j])}}
                 = {History + 3, History + 5}

C8_Witness ==
    /\ MaReturned
    /\ Len(security_df) = History + 6
    /\ [k \in 1 .. 7 |-> DiffSignAt(History + k - 1)]
          = <<1, 1, 1, -1, -1, 1, 1>>
    /\ \E i, j \in DOMAIN result.df :
          /\ result.df[i].index = History + 3
          /\ SignalOf(result.df[i]) = "Sell"
          /\ result.df[j].index = History + 5
          /\ SignalOf(result.df[j]) = "Buy"

\* C9 (as stated): the returned rows are exactly the input rows with at
\* least max(short, long) observations up to and including their day, in
\* the original order.
C9_RowsWithHistory ==
    MaReturned =>
        /\ {result.df[i].index : i \in DOMAIN result.df}
              = {d \in 1 .. Len(security_df) : d >= History}
        /\ \A i, j \in DOMAIN result.df :
              i < j => result.df[i].index < result.df[j].index

(* ================= claims on generate_bollinger_columns ================= *)
BollingerReturned ==
    "bollinger_len" \in DOMAIN indicators /\ result.raised = "none"
ValueOf(row) == row.data[InputCol("close", "a")]
LowOf(row) == row.data[BollingerLowCol("close", "a")]
HighOf(row) == row.data[BollingerHighCol("close", "a")]
BollingerSignalOf(row) == row.data[BollingerSignalCol("a")].str

\* C10: on every returned day the signal is Buy exactly when the value is
\* strictly below the low band, Sell exactly when it is strictly above the
\* high band and N/A otherwise; a value equal to a band is labelled N/A.
C10_BollingerStrict ==
    BollingerReturned =>
        \A i \in DOMAIN result.df :
            LET row == result.df[i]
            IN  /\ BollingerSignalOf(row) = "Buy"
                      <=> Lt(ValueOf(row), LowOf(row))
                /\ BollingerSignalOf(row) = "Sell"
                      <=> Gt(ValueOf(row), HighOf(row))
                /\ BollingerSignalOf(row) = "N/A"
                      <=> (~Lt(ValueOf(row), LowOf(row))
                           /\ ~Gt(ValueOf(row), HighOf(row)))
                /\ (Eq(ValueOf(row), LowOf(row))
                    \/ Eq(ValueOf(row), HighOf(row)))
                      => BollingerSignalOf(row) = "N/A"

\* a day whose value sits exactly on a high band that lies above the mean
C10_Witness ==
    /\ BollingerReturned
    /\ \E i \in DOMAIN result.df :
          /\ Eq(ValueOf(result.df[i]), HighOf(result.df[i]))
          /\ Gt(HighOf(result.df[i]), LowOf(result.df[i]))
          /\ BollingerSignalOf(result.df[i]) = "N/A"


(* ========================= claims on _rsi_agg ========================== *)
\* a window has a gain / a loss when some close is above / below the one
\* before it
HasGain(window) == \E i \in 1 .. Len(window) - 1 : window[i + 1] > window[i]
HasLoss(window) == \E i \in 1 .. Len(window) - 1 : window[i + 1] < window[i]

\* C11 (as stated): the RSI aggregate returns 50 for a window without gains
\* and losses, 100 for one with gains and no losses, 0 for one with losses
\* and no gains; in each of the three cases it returns a value, no error.
C11_RsiEdgeCases ==
    rsi.raised # "pending"
    => /\ (~HasGain(security_array) /\ ~HasLoss(security_array))
          => rsi = RsiOutcome("none", Num(50))
       /\ (HasGain(security_array) /\ ~HasLoss(security_array))
          => rsi = RsiOutcome("none", Num(100))
       /\ (~HasGain(security_array) /\ HasLoss(security_array))
          => rsi = RsiOutcome("none", Num(0))

(* ===================== claims on run_simulation_df ===================== *)
\* the run is over: the loop has finished or an exception has ended it
Ended == pc \in {"done", "raised"}

\* C12: a simulation over a price series with zero rows ends without an
\* exception and leaves the portfolio as it was created: cash equal to the
\* starting cash, no holdings, an empty transaction log.
C12_ZeroRows ==
    (Len(security_df) = 0 /\ pc # "start")
    => /\ pc = "done"
       /\ exception = "none"
       /\ total_cash_amt = start_cash_amt
       /\ DOMAIN security_dict = {}
       /\ trans_df = <<>>

C12_Witness ==
    /\ Len(security_df) = 0
    /\ pc = "done"
    /\ MaConfigured
    /\ Len(securities_iter) = 2
    /\ start_cash_amt > 0

\* the run of the close series 10 10 12 8 9 11 with a 2-day short and a 3-day
\* long moving average and a starting cash of 100 has finished
EndToEndDone ==
    /\ security_df = EndToEndFrame
    /\ indicators = [ma_crossovers |-> <<2, 3>>]
    /\ start_cash_amt = 100
    /\ pc = "done"

PairsReached == (row_pos - 1) * Len(securities_iter) + sec_pos
PairsTotal == Len(security_data) * Len(securities_iter)

\* the dates of the log never decrease from one entry to the next
DatesNonDecreasing ==
    \A i, j \in DOMAIN trans_df :
        i < j => trans_df[i].date <= trans_df[j].date

\* a step appends to the log, if it changes it, and moves from a pair to
\* the pair after it: the loop enters at the first pair, the moving-average
\* step stays at its pair, the Bollinger step goes on to the next pair and
\* leaves the loop only after the last one
OnePassStep ==
    /\ Len(trans_df') >= Len(trans_df)
    /\ SubSeq(trans_df', 1, Len(trans_df)) = trans_df
    /\ (pc = "start" /\ pc' = "ma") => PairsReached' = 1
    /\ pc = "ma" => PairsReached' = PairsReached
    /\ (pc = "bollinger" /\ pc' = "ma") => PairsReached' = PairsReached + 1
    /\ (pc = "bollinger" /\ pc' = "done") => PairsReached = PairsTotal
    /\ pc' = "done" => pc \in {"start", "bollinger"}

\* C14 (as stated): the log is in execution order with dates that never
\* decrease, every (date, security) pair is processed exactly once, and the
\* loop finishes after one pass over the series: it is left after the last
\* pair and never by an exception.  (Every step of the loop moves on, so a
\* run can fail to finish only by being cut short.)
C14_OnePass ==
    /\ []DatesNonDecreasing
    /\ [][OnePassStep]_vars
    /\ [](pc # "raised")

\* what the moving-average step of the current pair reads: the crossover
\* flag, ma_diff and the close of the current security on the current date
FlagIsOne ==
    /\ MaConfigured
    /\ Eq(CurrentRow.data[CrossoverCol(CurrentSecurity)], Num(1))
MaDiffNow == CurrentRow.data[MaDiffCol(CurrentSecurity)]
CloseNow == CurrentRow.data[SimCloseCol(CurrentSecurity)].a

\* the step appends a transaction of the given type to the log
Executes(type) ==
    /\ Len(trans_df') = Len(trans_df) + 1
    /\ trans_df'[Len(trans_df')].trans_type = type

\* the transaction the step appends is of the current security, at the
\* close of the current date, dated with the current date
AtCurrentPair ==
    LET t == trans_df'[Len(trans_df')]
    IN  /\ t.security = CurrentSecurity
        /\ t.security_price = CloseNow
        /\ t.date = CurrentRow.index

\* C15: the moving-average step executes a Buy exactly when the crossover
\* flag of the security is 1 on the date, the security is not in the held
\* set, ma_diff > 0 and the cash is strictly greater than purchase_price;
\* the Buy is of floor(cash/close) shares at the close of the date, puts
\* the security into the held set and sets purchase_price to that close.
C15_MaBuy ==
    [][pc = "ma"
       => /\ Executes("Buy")
             <=> /\ FlagIsOne
                 /\ CurrentSecurity \notin bought_securities
                 /\ Gt(MaDiffNow, Num(0))
                 /\ total_cash_amt > purchase_price
          /\ Executes("Buy")
             => LET n == Held(security_dict', CurrentSecurity)
                         - Held(security_dict, CurrentSecurity)
                IN  /\ AtCurrentPair
                    /\ n * CloseNow <= total_cash_amt
                    /\ (n + 1) * CloseNow > total_cash_amt
                    /\ total_cash_amt' = total_cash_amt - n * CloseNow
                    /\ bought_securities'
                          = bought_securities \cup {CurrentSecurity}
                    /\ purchase_price' = CloseNow]_vars

\* a moving-average Buy of at least one share has just been executed
C15_Witness ==
    /\ pc = "bollinger"
    /\ last_call.op = "buy_max_securities"
    /\ Held(security_dict, last_call.ticker_symbol) > 0
    /\ purchase_price = last_call.security_price

\* C16: the moving-average step executes a Sell only when the security is in
\* the held set, ma_diff < 0 on the date and the close of the date is
\* strictly greater than purchase_price; the Sell brings the share count
\* of the security to 0, takes the security out of the held set and leaves
\* purchase_price as it was.
C16_MaSell ==
    [][(pc = "ma" /\ Executes("Sell"))
       => /\ FlagIsOne
          /\ CurrentSecurity \in bought_securities
          /\ Lt(MaDiffNow, Num(0))
          /\ CloseNow > purchase_price
          /\ AtCurrentPair
          /\ Held(security_dict', CurrentSecurity) = 0
          /\ total_cash_amt'
                = total_cash_amt + Held(security_dict, CurrentSecurity) * CloseNow
          /\ bought_securities' = bought_securities \ {CurrentSecurity}
          /\ purchase_price' = purchase_price]_vars

\* a moving-average Sell of at least one share has just been executed
C16_Witness ==
    /\ pc = "bollinger"
    /\ last_call.op = "sell_all_securities"
    /\ trans_df[Len(trans_df)].amt > 0
    /\ last_call.security_price > purchase_price

\* the bands generate_bollinger_columns produced for the current security on
\* the current date
LowBandNow == CurrentRow.data[BollingerLowCol("close", CurrentSecurity)]
HighBandNow == CurrentRow.data[BollingerHighCol("close", CurrentSecurity)]

\* C17 (as stated): with both Bollinger parameters configured, the Bollinger
\* step of every (date, security) pair completes without error; it buys
\* only when the security is not held, the close is below the low band
\* generate_bollinger_columns produced and the cash is above purchase_price,
\* and sells only when the security is held, the close is above the high
\* band and above purchase_price.
C17_BollingerStep ==
    [][(pc = "bollinger" /\ BollingerConfigured)
       => /\ pc' # "raised"
          /\ Executes("Buy")
             => /\ CurrentSecurity \notin bought_securities
                /\ Lt(Num(CloseNow), LowBandNow)
                /\ total_cash_amt > purchase_price
          /\ Executes("Sell")
             => /\ CurrentSecurity \in bought_securities
                /\ Gt(Num(CloseNow), HighBandNow)
                /\ CloseNow > purchase_price]_vars

\* entry i of the log is the last Buy of the security of entry j before j
IsLastBuyBefore(i, j) ==
    /\ i < j
    /\ trans_df[i].trans_type = "Buy"
    /\ trans_df[i].security = trans_df[j].security
    /\ \A k \in DOMAIN trans_df :
          (i < k /\ k < j /\ trans_df[k].security = trans_df[j].security)
          => trans_df[k].trans_type # "Buy"

\* some security has been sold at a close that is not above the price of its
\* own last Buy
SoldNotAboveOwnBuy ==
    \E i, j \in DOMAIN trans_df :
        /\ trans_df[j].trans_type = "Sell"
        /\ IsLastBuyBefore(i, j)
        /\ trans_df[j].security_price <= trans_df[i].security_price

\* the run of the two close series a = 2 3 2 1 2 1 3 and b = 2 1 2 1 1 1 1
\* with a 2-day and a 1-day average has finished: a is bought at 2 on day
\* 3, b has an upward crossover at the close 1 on day 4, and a has a
\* downward crossover at the close 2 on day 5
TwoSecurityDone ==
    /\ security_df = TwoSecurityFrame
    /\ start_cash_amt = MaxSimCash
    /\ pc = "done"

\* C18 (as stated): with two securities the shared purchase_price lets the
\* last purchase of b decide the gate of a, and a is sold at a close that is
\* not above the price a itself was last bought at.  Stated for the run
\* above, where a purchase of b on day 4 would take purchase_price down to
\* 1 and let a be sold at 2 on day 5.
C18_SharedPriceSale == TwoSecurityDone => SoldNotAboveOwnBuy

\* C18 (amended): with one or with several securities, every Sell is at a
\* close strictly above the price of the last Buy of the same security.
\* While a security is held the cash is below purchase_price, so that no
\* other security is bought, at most one security is held, and purchase_price
\* is the price the held security was bought at.
C18_SellAboveOwnBuy ==
    /\ ~SoldNotAboveOwnBuy
    /\ \A j \in DOMAIN trans_df :
          trans_df[j].trans_type = "Sell"
          => \E i \in DOMAIN trans_df : IsLastBuyBefore(i, j)
    /\ bought_securities # {}
       => /\ total_cash_amt < purchase_price
          /\ Cardinality(bought_securities) = 1
          /\ \E i \in DOMAIN trans_df :
                /\ trans_df[i].trans_type = "Buy"
                /\ trans_df[i].security \in bought_securities
                /\ trans_df[i].security_price = purchase_price
                /\ \A k \in DOMAIN trans_df : k <= i

\* two securities: a has been sold after b had its upward crossover
C18_Witness ==
    /\ TwoSecurityDone
    /\ \E j \in DOMAIN trans_df :
          /\ trans_df[j].trans_type = "Sell"
          /\ trans_df[j].security = "a"
          /\ trans_df[j].date = 7

\* C19 (as stated): at every point of a run a security is in the held set
\* exactly when the portfolio's share count of it is greater than 0.
C19_HeldSetAgrees ==
    \A sec \in SecurityNames :
        sec \in bought_securities <=> Held(security_dict, sec) > 0

\* entry i of the log is the transaction of the security of entry j that
\* precedes entry j
IsPreviousOf(i, j) ==
    /\ i < j
    /\ trans_df[i].security = trans_df[j].security
    /\ \A k \in DOMAIN trans_df :
          (i < k /\ k < j) => trans_df[k].security # trans_df[j].security

Rejections == {"InsufficientFunds", "OverSell", "NotOwned"}

\* C21: over close prices that are all strictly positive, no Buy issued by
\* the loop is rejected for insufficient funds and no Sell as an over-sell
\* or as a sale of a security not owned; a run with the moving-average
\* indicator alone is never ended by an exception: while it is in the
\* loop it is at a pair of the series, whose steps can be taken, and it
\* leaves the loop as done.
C21_NoRejectedOrder ==
    /\ last_call.raised = "none"
    /\ exception \notin Rejections
    /\ ~BollingerConfigured => (pc # "raised" /\ exception = "none")
    /\ pc \in {"ma", "bollinger"}
       => /\ row_pos \in 1 .. Len(security_data)
          /\ sec_pos \in 1 .. Len(securities_iter)
          /\ \A sec \in SecurityNames :
                CurrentRow.data[SimCloseCol(sec)].a > 0
    /\ bought_securities \subseteq DOMAIN security_dict

\* a moving-average run has finished after a Buy and a Sell of shares
C21_Witness ==
    /\ pc = "done"
    /\ MaConfigured
    /\ ~BollingerConfigured
    /\ \E i, j \in DOMAIN trans_df :
          /\ trans_df[i].trans_type = "Buy"
          /\ trans_df[i].amt > 0
          /\ trans_df[j].trans_type = "Sell"
          /\ trans_df[j].amt > 0
====
